---- MODULE Spec2Model ----
(***************************************************************************)
(* Imagematch: the actor index (backend/app/services/search.py), the       *)
(* request handlers (backend/app/main.py) and the index builder            *)
(* (backend/scripts/build_actor_index.py).                                 *)
(*                                                                         *)
(* Floating-point vectors are modelled in fixed point: a component c of    *)
(* the model stands for the real number c / Scale, a similarity s for      *)
(* s / (Scale * Scale).  Python's None is the empty tuple, a present value *)
(* x the one-element tuple <<x>>.  Row indices are 0-based as in the code. *)
(***************************************************************************)
EXTENDS Integers, Sequences, FiniteSets, TLC

VARIABLES
    embFile,        \* DATA_DIR/embeddings.npy: None (missing) or Some(matrix)
    metaFile,       \* DATA_DIR/metadata.json: None (missing) or Some(list of entries)
    actorsDir,      \* DATA_DIR/actors: the set of file names in it
    INDEX,          \* the module-level ActorIndex: _loaded, _emb, _meta
    workers,        \* the callers of INDEX.topk (requests or threads), one record each
    builder,        \* the index builder process: its position and what it has computed
    ret,            \* the last atomic call of INDEX.topk: its arguments and its outcome
    groups,         \* the argument of compute_actor_vectors
    built           \* the outcome of compute_actor_vectors

vars == <<embFile, metaFile, actorsDir, INDEX, workers, builder, ret, groups, built>>

-----------------------------------------------------------------------------
(* Bounds of the model *)

\* Fixed-point scale: 1.0 is Scale.
Scale == 10
\* Largest number of rows of an index file drawn in InitTopk.
MaxRows == 3
\* Largest k of a direct topk call.
MaxK == 4
\* Files of a batch request.
MaxBatch == 3
\* Concurrent direct callers of INDEX.topk.
NumThreads == 2

-----------------------------------------------------------------------------
(* Python values *)

None == <<>>
Some(x) == <<x>>
Get(o) == o[1]

Min(a, b) == IF a <= b THEN a ELSE b

-----------------------------------------------------------------------------
(* numpy on fixed-point vectors *)

RECURSIVE DotFrom(_, _, _)
DotFrom(a, b, i) ==
    IF i > Len(a) THEN 0 ELSE a[i] * b[i] + DotFrom(a, b, i + 1)

\* a @ b for two vectors
Dot(a, b) == DotFrom(a, b, 1)

RECURSIVE SqrtFrom(_, _)
SqrtFrom(n, r) ==
    IF (r + 1) * (r + 1) > n THEN r ELSE SqrtFrom(n, r + 1)

\* np.linalg.norm(v), rounded down
Norm(v) == SqrtFrom(Dot(v, v), 0)

\* v / (np.linalg.norm(v) + 1e-12): the zero vector stays the zero vector
Normalize(v) ==
    LET n == Norm(v)
    IN  [i \in 1..Len(v) |-> IF n = 0 THEN 0 ELSE (v[i] * Scale) \div n]

\* emb / (np.linalg.norm(emb, axis=1, keepdims=True) + 1e-12)
NormalizeRows(m) == [i \in 1..Len(m) |-> Normalize(m[i])]

-----------------------------------------------------------------------------
(* ActorIndex *)

\* ActorIndex.__init__
NewIndex == [loaded |-> FALSE, emb |-> None, meta |-> None]

\* Variant of ArtifactsMissing that forgets metadata.json
ArtifactsMissingEmbOnly(ef, mf) == ef = None

\* not EMB_PATH.exists() or not META_PATH.exists()
ArtifactsMissing(ef, mf) == ef = None \/ mf = None

\* self._emb = np.load(EMB_PATH).astype("float32"), then the row normalisation
LoadEmb(ix, ef) == [ix EXCEPT !.emb = Some(NormalizeRows(Get(ef)))]

\* self._meta = json.load(f)
LoadMeta(ix, mf) == [ix EXCEPT !.meta = Some(Get(mf))]

\* len(self._meta) != self._emb.shape[0]
RowCountMismatch(ix) == Len(Get(ix.meta)) # Len(Get(ix.emb))

\* self._loaded = True
SetLoaded(ix) == [ix EXCEPT !.loaded = TRUE]

\* ensure_loaded run by a single caller while the files do not change:
\* the index it leaves and the exception it raises ("none": it returns)
EnsureLoaded(ix, ef, mf) ==
    IF ix.loaded THEN [ix |-> ix, exc |-> "none"]
    ELSE IF ArtifactsMissing(ef, mf)
    THEN [ix |-> ix, exc |-> "FileNotFoundError"]
    ELSE LET ix2 == LoadMeta(LoadEmb(ix, ef), mf)
         IN  IF RowCountMismatch(ix2)
             THEN [ix |-> ix2, exc |-> "ValueError"]
             ELSE [ix |-> SetLoaded(ix2), exc |-> "none"]

\* sims = self._emb @ q, q normalised
Sims(E, q) == LET qn == Normalize(q) IN [i \in 1..Len(E) |-> Dot(E[i], qn)]

\* Variant of Argsort that sorts sims instead of -sims
ArgsortAscending(s) ==
    {p \in Permutations(1..Len(s)) :
        \A i, j \in 1..Len(s) : i < j => s[p[i]] <= s[p[j]]}

\* np.argsort(-sims): every order of the rows by non-increasing similarity
\* (the sort is not stable: the order of equal similarities is not fixed)
Argsort(s) ==
    {p \in Permutations(1..Len(s)) :
        \A i, j \in 1..Len(s) : i < j => s[p[i]] >= s[p[j]]}

\* [:k]
Slice(p, k) == SubSeq(p, 1, Min(k, Len(p)))

\* [(int(i), float(sims[i])) for i in idx]: every list topk may return
TopkOf(E, q, k) ==
    LET s == Sims(E, q)
    IN  {[n \in 1..Len(Slice(p, k)) |-> <<Slice(p, k)[n] - 1, s[Slice(p, k)[n]]>>] :
            p \in Argsort(s)}

\* info(idx)
Info(ix, idx) == Get(ix.meta)[idx + 1]

-----------------------------------------------------------------------------
(* Direct calls of INDEX.topk by one caller, on any index files *)

\* Embedding vectors, not all of unit norm
RawVecs == {<<0, 0>>, <<10, 0>>, <<3, 4>>, <<-6, 8>>}

Queries == {<<6, 8>>, <<0, 0>>}

\* The queries of the callers that run beside the builder
DirectQueries == {<<6, 8>>}

RECURSIVE MatricesOf(_)
MatricesOf(n) ==
    IF n = 0 THEN {<<>>}
    ELSE {Append(m, v) : m \in MatricesOf(n - 1), v \in RawVecs}

\* a metadata list of n entries
MetaOfLen(n) == [i \in 1..n |-> [name |-> "A", image_rel |-> Some("A.jpg"), cluster |-> None]]

NotBuilt == [called |-> FALSE, cpa |-> 0, exc |-> "none", emb |-> <<>>, meta |-> <<>>, dir |-> {}]

NoCall == [q |-> <<>>, k |-> 0, exc |-> "none", top |-> <<>>]

\* no request, no builder run
IdleRest ==
    /\ actorsDir = {}
    /\ workers = <<>>
    /\ builder = [pc |-> "idle", emb |-> <<>>, meta |-> <<>>]

InitTopk ==
    /\ IdleRest
    /\ \E n \in 0..MaxRows :
          /\ embFile \in {Some(m) : m \in MatricesOf(n)}
          /\ metaFile \in {None, Some(MetaOfLen(n)), Some(MetaOfLen(n + 1))}
    /\ INDEX = NewIndex
    /\ ret = NoCall
    /\ groups = <<>>
    /\ built = NotBuilt

\* INDEX.topk(q, k)
TopkCall ==
    \E q \in Queries, k \in 1..MaxK :
        LET r == EnsureLoaded(INDEX, embFile, metaFile)
        IN  /\ INDEX' = r.ix
            /\ IF r.exc # "none"
               THEN ret' = [q |-> q, k |-> k, exc |-> r.exc, top |-> <<>>]
               ELSE \E t \in TopkOf(Get(r.ix.emb), q, k) :
                       ret' = [q |-> q, k |-> k, exc |-> "none", top |-> t]
            /\ UNCHANGED <<embFile, metaFile, actorsDir, workers, builder, groups, built>>

NextTopk == TopkCall

SpecTopk == InitTopk /\ [][NextTopk]_vars

(* C1: a topk call that returns gives exactly min(k, N) pairs (rowIndex,   *)
(* score), the row indices distinct and in 0..N-1, each score the          *)
(* similarity of its row, the scores in non-increasing order, and no row   *)
(* left out more similar than the lowest returned score.                   *)
C1_TopkContract ==
    (ret.k >= 1 /\ ret.exc = "none") =>
        LET E == Get(INDEX.emb)
            N == Len(E)
            t == ret.top
            qn == Normalize(ret.q)
            returned == {t[i][1] : i \in 1..Len(t)}
        IN  /\ INDEX.loaded
            /\ Len(t) = Min(ret.k, N)
            /\ \A i \in 1..Len(t) : t[i][1] \in 0..(N - 1)
            /\ \A i, j \in 1..Len(t) : i # j => t[i][1] # t[j][1]
            /\ \A i \in 1..Len(t) : t[i][2] = Dot(E[t[i][1] + 1], qn)
            /\ \A i, j \in 1..Len(t) : i < j => t[i][2] >= t[j][2]
            /\ \A r \in 0..(N - 1) : r \notin returned =>
                   \A i \in 1..Len(t) : Dot(E[r + 1], qn) <= t[i][2]

\* a call with k = 2 on a loaded index of three rows
C1_Witness ==
    /\ ret.exc = "none"
    /\ ret.k = 2
    /\ Len(ret.top) = 2
    /\ Len(Get(INDEX.emb)) = 3
    /\ ret.top[1][2] > ret.top[2][2]
    /\ ret.top[1][1] = 2

(* C3: a load that fails on the row-count check leaves the index as it was *)
(* before the attempt: Unloaded, no cached matrix, no cached metadata.     *)
C3_FailedLoadLeavesNothing ==
    (ret.exc = "ValueError") => INDEX = NewIndex

-----------------------------------------------------------------------------
(* build_actor_index.py *)

\* paths[:20]
SampleCap == 20

\* The entity names, in sorted order: sorted(groups.items()) visits the
\* names of a dataset by ascending position in this list.
NameStr == <<"A", "a b", "a_b">>

NameIds == 1..Len(NameStr)

\* name.replace(' ', '_'), by name
Sanitized == <<"A", "a_b", "a_b">>

\* p.suffix.lower()
Lower(suffix) == IF suffix = ".JPG" THEN ".jpg" ELSE suffix

\* ACTOR_IMAGES_DIR / f"{name.replace(' ', '_')}{p.suffix.lower()}"
TargetName(n, p) == Sanitized[n] \o Lower(p.suffix)

RECURSIVE SumFrom(_, _, _)
SumFrom(X, c, i) == IF i > Len(X) THEN 0 ELSE X[i][c] + SumFrom(X, c, i + 1)

\* np.mean(X, axis=0)
Mean(X) == [c \in 1..Len(X[1]) |-> SumFrom(X, c, 1) \div Len(X)]

\* the loop over paths[:20] of one entity, from path i on: the embeddings
\* collected, the representative image and the images folder
RECURSIVE SampleFrom(_, _, _, _)
SampleFrom(n, paths, i, st) ==
    IF i > Min(SampleCap, Len(paths)) THEN st
    ELSE LET p == paths[i]
         IN  IF ~p.ok
             THEN SampleFrom(n, paths, i + 1, st)                \* except Exception: continue
             ELSE LET target == TargetName(n, p)
                      dir2 == IF st.rep = None /\ target \notin st.dir /\ p.savable
                              THEN st.dir \cup {target} ELSE st.dir
                      rep2 == IF st.rep = None /\ target \in dir2
                              THEN Some(target) ELSE st.rep
                  IN  SampleFrom(n, paths, i + 1,
                          [embs |-> Append(st.embs, p.vec), rep |-> rep2, dir |-> dir2])

\* Variant of Sample in which a failing image ends the loop of its entity
RECURSIVE SampleAbortFrom(_, _, _, _)
SampleAbortFrom(n, paths, i, st) ==
    IF i > Min(SampleCap, Len(paths)) \/ ~paths[i].ok THEN st
    ELSE SampleAbortFrom(n, paths, i + 1, SampleFrom(n, <<paths[i]>>, 1, st))

SampleAbort(n, paths, dir) ==
    SampleAbortFrom(n, paths, 1, [embs |-> <<>>, rep |-> None, dir |-> dir])

Sample(n, paths, dir) ==
    SampleFrom(n, paths, 1, [embs |-> <<>>, rep |-> None, dir |-> dir])

\* the single-mean entry of an entity
MeanEntry(n, X, rep) ==
    [vectors |-> <<Normalize(Mean(X))>>,
     meta |-> <<[name |-> NameStr[n], image_rel |-> rep, cluster |-> None]>>]

\* X[labels == c]
Members(X, labels, c) == SelectSeq([i \in 1..Len(X) |-> <<X[i], labels[i]>>],
                                   LAMBDA e : e[2] = c)

\* the loop over the clusters c, c+1, ... of one entity
RECURSIVE ClusterFrom(_, _, _, _, _, _)
ClusterFrom(n, X, rep, labels, cpa, c) ==
    IF c >= cpa THEN [vectors |-> <<>>, meta |-> <<>>]
    ELSE LET rest == ClusterFrom(n, X, rep, labels, cpa, c + 1)
             mem == Members(X, labels, c)
         IN  IF mem = <<>> THEN rest
             ELSE [vectors |-> <<Normalize(Mean([i \in 1..Len(mem) |-> mem[i][1]]))>>
                                  \o rest.vectors,
                   meta |-> <<[name |-> NameStr[n], image_rel |-> rep, cluster |-> Some(c)]>>
                               \o rest.meta]

\* The entries of one entity with embeddings X: the mean, or with
\* clusters_per_actor > 1 and enough samples the centroids of any labelling
\* KMeans may return, or the mean again when sklearn is missing or fails.
EntityEntries(n, X, rep, cpa) ==
    IF cpa > 1 /\ Len(X) >= cpa
    THEN {ClusterFrom(n, X, rep, labels, cpa, 0) : labels \in [1..Len(X) -> 0..(cpa - 1)]}
         \cup {MeanEntry(n, X, rep)}
    ELSE {MeanEntry(n, X, rep)}

\* the loop over sorted(groups.items()) from name n on
RECURSIVE BuildFrom(_, _, _, _)
BuildFrom(g, cpa, n, acc) ==
    IF n > Len(NameStr) THEN {acc}
    ELSE IF n \notin DOMAIN g \/ g[n] = <<>>
    THEN BuildFrom(g, cpa, n + 1, acc)                           \* if not paths: continue
    ELSE LET st == Sample(n, g[n], acc.dir)
         IN  IF st.embs = <<>>
             THEN BuildFrom(g, cpa, n + 1, [acc EXCEPT !.dir = st.dir])   \* if not embs: continue
             ELSE UNION {BuildFrom(g, cpa, n + 1,
                             [vectors |-> acc.vectors \o e.vectors,
                              meta |-> acc.meta \o e.meta,
                              dir |-> st.dir]) :
                         e \in EntityEntries(n, st.embs, st.rep, cpa)}

\* return np.stack(vectors, axis=0), meta: stacking no vector raises ValueError
Stack(acc) ==
    IF acc.vectors = <<>>
    THEN [exc |-> "ValueError", emb |-> <<>>, meta |-> <<>>, dir |-> acc.dir]
    ELSE [exc |-> "none", emb |-> acc.vectors, meta |-> acc.meta, dir |-> acc.dir]

\* compute_actor_vectors(groups, clusters_per_actor) with the images folder
\* holding dir: every outcome it may have
ComputeActorVectors(g, cpa, dir) ==
    {Stack(acc) : acc \in BuildFrom(g, cpa, 1, [vectors |-> <<>>, meta |-> <<>>, dir |-> dir])}

-----------------------------------------------------------------------------
(* compute_actor_vectors on any dataset *)

GoodJpg(v) == [ok |-> TRUE, vec |-> v, suffix |-> ".JPG", savable |-> TRUE]
\* an image that embeds and cannot be saved again
GoodWebp(v) == [ok |-> TRUE, vec |-> v, suffix |-> ".webp", savable |-> FALSE]
\* a corrupt file
Corrupt == [ok |-> FALSE, vec |-> <<0, 0>>, suffix |-> ".png", savable |-> FALSE]

CorruptRun(n) == [i \in 1..n |-> Corrupt]

PathLists ==
    {<<>>,
     <<GoodJpg(<<10, 0>>)>>,
     <<Corrupt>>,
     <<GoodJpg(<<6, 8>>), GoodJpg(<<8, 6>>), Corrupt, GoodJpg(<<0, 10>>)>>,
     <<Corrupt, GoodJpg(<<0, 10>>)>>,
     <<GoodWebp(<<-6, 8>>), GoodJpg(<<6, 8>>)>>,
     CorruptRun(SampleCap - 1) \o <<GoodJpg(<<10, 0>>)>>,
     CorruptRun(SampleCap) \o <<GoodJpg(<<10, 0>>)>>}

\* clusters_per_actor as main passes it: max(1, int(args.clusters_per_actor))
ClusterChoices == {1, 2}

InitBuild ==
    /\ IdleRest
    /\ embFile = None
    /\ metaFile = None
    /\ INDEX = NewIndex
    /\ ret = NoCall
    /\ \E S \in SUBSET NameIds : groups \in [S -> PathLists]
    /\ built = NotBuilt

\* compute_actor_vectors(groups, clusters_per_actor)
ComputeCall ==
    /\ ~built.called
    /\ \E cpa \in ClusterChoices :
          \E o \in ComputeActorVectors(groups, cpa, actorsDir) :
              /\ built' = [called |-> TRUE, cpa |-> cpa, exc |-> o.exc,
                           emb |-> o.emb, meta |-> o.meta, dir |-> o.dir]
              /\ actorsDir' = o.dir
    /\ UNCHANGED <<embFile, metaFile, INDEX, workers, builder, ret, groups>>

NextBuild == ComputeCall

SpecBuild == InitBuild /\ [][NextBuild]_vars

\* an entity with at least one image among its first 20 paths that embeds
Usable(g) ==
    {n \in DOMAIN g : \E i \in 1..Min(SampleCap, Len(g[n])) : g[n][i].ok}

\* the names of a metadata list
NamesOf(meta) == [i \in 1..Len(meta) |-> meta[i].name]

\* the names of a set of entities, in sorted order
RECURSIVE SortedNames(_, _)
SortedNames(S, n) ==
    IF n > Len(NameStr) THEN <<>>
    ELSE (IF n \in S THEN <<NameStr[n]>> ELSE <<>>) \o SortedNames(S, n + 1)

(* C8: with clusters_per_actor = 1, compute_actor_vectors emits exactly    *)
(* one entry for each entity that has an image that embeds among its first *)
(* 20 paths and none for any other entity, in name-sorted order; an image  *)
(* that fails to embed is skipped; the matrix has as many rows as the      *)
(* metadata has entries.  The call raises only when no entity is usable.   *)
C8_OneEntryPerUsableEntity ==
    (built.called /\ built.cpa = 1) =>
        /\ (built.exc = "none") <=> (Usable(groups) # {})
        /\ built.exc = "none" =>
              /\ NamesOf(built.meta) = SortedNames(Usable(groups), 1)
              /\ Len(built.emb) = Len(built.meta)
              /\ \A i \in 1..Len(built.meta) : built.meta[i].cluster = None

\* three valid images and a corrupt one give one entry; an entity with only
\* corrupt images gives none; an entity whose first 20 images fail gives none
C8_Witness ==
    /\ built.called /\ built.cpa = 1 /\ built.exc = "none"
    /\ DOMAIN groups = NameIds
    /\ Len(groups[1]) = 4 /\ ~groups[1][3].ok
    /\ groups[2] = <<Corrupt>>
    /\ Len(groups[3]) = SampleCap + 1
    /\ NamesOf(built.meta) = <<"A">>

-----------------------------------------------------------------------------
(* main.py: the uploads *)

\* Content types, as the sequences of their characters
ImagePrefix == <<"i", "m", "a", "g", "e", "/">>
ImagePng == ImagePrefix \o <<"p", "n", "g">>
ImageNoSlash == <<"i", "m", "a", "g", "e">>
TextPlain == <<"t", "e", "x", "t", "/", "p", "l", "a", "i", "n">>

\* str.startswith
StartsWith(str, prefix) ==
    Len(str) >= Len(prefix) /\ SubSeq(str, 1, Len(prefix)) = prefix

\* file.content_type is None or not file.content_type.startswith("image/")
NotAnImage(u) ==
    u.content_type = None \/ ~StartsWith(Get(u.content_type), ImagePrefix)

\* 10 * 1024 * 1024
MaxUploadBytes == 10485760

\* Variant of TooLarge that rejects an upload of exactly 10 MiB
TooLargeInclusive(u) == u.size >= MaxUploadBytes

\* len(contents) > 10 * 1024 * 1024
TooLarge(u) == u.size > MaxUploadBytes

\* An upload: decodable says whether image_embedding succeeds on its bytes,
\* vec is the feature vector the encoder gives them
Upload(name, ctype, size, decodable, vec) ==
    [filename |-> name, content_type |-> ctype, size |-> size,
     decodable |-> decodable, vec |-> vec]

GoodUpload == Upload("a.png", Some(ImagePng), 2048, TRUE, <<6, 8>>)
LimitUpload == Upload("limit.png", Some(ImagePng), MaxUploadBytes, TRUE, <<0, 20>>)
TextUpload == Upload("notes.txt", Some(TextPlain), 2048, TRUE, <<6, 8>>)
BigTextUpload == Upload("big.txt", Some(TextPlain), MaxUploadBytes + 1, TRUE, <<6, 8>>)
NoSlashUpload == Upload("odd.png", Some(ImageNoSlash), 2048, TRUE, <<6, 8>>)
UntypedUpload == Upload("raw.bin", None, 2048, TRUE, <<6, 8>>)
BigUpload == Upload("big.png", Some(ImagePng), MaxUploadBytes + 1, TRUE, <<6, 8>>)
BrokenUpload == Upload("broken.png", Some(ImagePng), 2048, FALSE, <<0, 0>>)

Uploads == {GoodUpload, LimitUpload, TextUpload, BigTextUpload, NoSlashUpload,
            UntypedUpload, BigUpload, BrokenUpload}

BatchUploads == {GoodUpload, TextUpload, BigUpload, BrokenUpload}

RECURSIVE BatchesOf(_)
BatchesOf(n) ==
    IF n = 0 THEN {<<>>}
    ELSE {Append(b, u) : b \in BatchesOf(n - 1), u \in BatchUploads}

Batches == UNION {BatchesOf(n) : n \in 0..MaxBatch}

\* top_k: Query(3, ge=1, le=10)
TopKChoices == {1, 3}

\* image_embedding(contents): the features divided by their norm
ImageEmbedding(u) == Normalize(u.vec)

-----------------------------------------------------------------------------
(* main.py: the handlers.  A worker runs one request; pc is its position. *)

Workers == DOMAIN workers

\* missing0, loaded0: the artifacts and the index when the request started;
\* raised: the exception of INDEX.topk or INDEX.info for each file handled;
\* didRead: this call of ensure_loaded has read embeddings.npy
IdleWorker ==
    [pc |-> "idle", kind |-> "none", files |-> <<>>, k |-> 0, i |-> 0, q |-> <<>>,
     top |-> <<>>, exc |-> "none", status |-> 0, body |-> None, outputs |-> <<>>,
     raised |-> <<>>, calledEmbed |-> FALSE, calledIndex |-> FALSE, didRead |-> FALSE,
     missing0 |-> FALSE, loaded0 |-> FALSE]

\* Positions of ensure_loaded past the _loaded check
LoadPcs == {"L22", "L26", "L30", "L32"}

\* The response is sent: raise HTTPException(status) or return the body
Respond(rec, status, body) ==
    [rec EXCEPT !.pc = "done", !.status = status, !.body = body]

ErrorItem(u, msg) == [filename |-> u.filename, results |-> None, error |-> Some(msg)]

ResultsItem(u, items) == [filename |-> u.filename, results |-> Some(items), error |-> None]

\* for f in files, from file rec.i on, up to the next await f.read():
\* a file that is not an image gets its error entry and the loop goes on
RECURSIVE BatchScan(_)
BatchScan(rec) ==
    IF rec.i > Len(rec.files) THEN Respond(rec, 200, Some(rec.outputs))
    ELSE IF NotAnImage(rec.files[rec.i])
    THEN BatchScan([rec EXCEPT !.outputs = Append(@, ErrorItem(rec.files[rec.i], "not an image")),
                               !.raised = Append(@, "none"),
                               !.i = @ + 1])
    ELSE [rec EXCEPT !.pc = "read"]

\* outputs.append(item) for the current file, and the loop goes on
BatchAppend(rec, item, exc) ==
    BatchScan([rec EXCEPT !.outputs = Append(@, item), !.raised = Append(@, exc),
                          !.i = @ + 1, !.didRead = FALSE])

\* MatchResult(name=info.get("name", ...), score=score, image_url=...)
\* (every entry the builder writes has a name)
MatchResultOf(ix, pair) ==
    LET info == Info(ix, pair[1])
    IN  [name |-> info.name, score |-> pair[2],
         image_url |-> IF info.image_rel # None
                       THEN Some("/actors/" \o Get(info.image_rel)) ELSE None]

\* self._meta[idx] raises IndexError
InfoFails(ix, top) == \E n \in 1..Len(top) : top[n][1] + 1 > Len(Get(ix.meta))

ResultsOf(ix, top) == [n \in 1..Len(top) |-> MatchResultOf(ix, top[n])]

\* The status of an exception of INDEX.topk in match_actors
StatusOf(exc) == IF exc = "FileNotFoundError" THEN 503 ELSE 500

\* The status of an oversized upload in match_actors
TooLargeStatus == 413

\* Variants of BatchAborts: every exception is an error entry; every
\* exception ends the request
BatchAbortsNever(exc) == FALSE

BatchAbortsAlways(exc) == TRUE

\* Whether the batch handler re-raises an exception of INDEX.topk
BatchAborts(exc) == exc = "FileNotFoundError"

\* The except clauses around INDEX.topk, by the kind of caller
OnRaise(rec, exc) ==
    LET r == [rec EXCEPT !.exc = exc]
    IN  CASE rec.kind = "single" -> Respond(r, StatusOf(exc), None)
          [] rec.kind = "batch" ->
                 IF BatchAborts(exc) THEN Respond(r, 503, None)
                 ELSE BatchAppend(r, ErrorItem(rec.files[rec.i], "processing failed"), exc)
          [] OTHER -> [r EXCEPT !.pc = "done"]

\* A response is delivered before anything else happens
Quiet == \A w \in Workers : workers[w].pc # "done"

Step(w, rec) == workers' = [workers EXCEPT ![w] = rec]

NewRequest(kind, files, k) ==
    [IdleWorker EXCEPT !.kind = kind, !.files = files, !.k = k, !.i = 1,
                       !.missing0 = ArtifactsMissing(embFile, metaFile),
                       !.loaded0 = INDEX.loaded]

\* POST /match-actors: the content-type check, then await file.read()
MatchActorsStart(w) ==
    /\ Quiet
    /\ workers[w].pc = "idle"
    /\ \E u \in Uploads, k \in TopKChoices :
          LET rec == NewRequest("single", <<u>>, k)
          IN  Step(w, IF NotAnImage(u) THEN Respond(rec, 400, None)
                      ELSE [rec EXCEPT !.pc = "read"])
    /\ UNCHANGED <<embFile, metaFile, actorsDir, INDEX, builder, ret, groups, built>>

\* POST /match-actors: the size check and image_embedding(contents)
MatchActorsRead(w) ==
    /\ Quiet
    /\ workers[w].pc = "read" /\ workers[w].kind = "single"
    /\ LET rec == workers[w]
           u == rec.files[1]
       IN  Step(w, IF TooLarge(u) THEN Respond(rec, TooLargeStatus, None)
                   ELSE IF ~u.decodable
                   THEN Respond([rec EXCEPT !.calledEmbed = TRUE], 400, None)
                   ELSE [rec EXCEPT !.calledEmbed = TRUE, !.q = ImageEmbedding(u),
                                    !.pc = "L20"])
    /\ UNCHANGED <<embFile, metaFile, actorsDir, INDEX, builder, ret, groups, built>>

\* POST /match-actors-batch: the empty check and the loop up to its first await
BatchStart(w) ==
    /\ Quiet
    /\ workers[w].pc = "idle"
    /\ \E fs \in Batches, k \in TopKChoices :
          LET rec == NewRequest("batch", fs, k)
          IN  Step(w, IF fs = <<>> THEN Respond(rec, 400, None) ELSE BatchScan(rec))
    /\ UNCHANGED <<embFile, metaFile, actorsDir, INDEX, builder, ret, groups, built>>

\* POST /match-actors-batch: the size check and image_embedding of one file
BatchRead(w) ==
    /\ Quiet
    /\ workers[w].pc = "read" /\ workers[w].kind = "batch"
    /\ LET rec == workers[w]
           u == rec.files[rec.i]
       IN  Step(w, IF TooLarge(u) THEN BatchAppend(rec, ErrorItem(u, "too large"), "none")
                   ELSE IF ~u.decodable
                   THEN BatchAppend([rec EXCEPT !.calledEmbed = TRUE],
                                    ErrorItem(u, "processing failed"), "none")
                   ELSE [rec EXCEPT !.calledEmbed = TRUE, !.q = ImageEmbedding(u),
                                    !.pc = "L20"])
    /\ UNCHANGED <<embFile, metaFile, actorsDir, INDEX, builder, ret, groups, built>>

\* A caller outside the handlers calls INDEX.topk(q, k)
DirectCall(w) ==
    /\ Quiet
    /\ workers[w].pc = "idle"
    /\ \E q \in DirectQueries, k \in TopKChoices :
          Step(w, [NewRequest("direct", <<>>, k) EXCEPT !.q = q, !.pc = "L20"])
    /\ UNCHANGED <<embFile, metaFile, actorsDir, INDEX, builder, ret, groups, built>>

-----------------------------------------------------------------------------
(* ActorIndex.topk, statement by statement *)

\* Variant of AlreadyLoaded that ignores the flag
AlreadyLoadedNever(ix) == FALSE

\* if self._loaded: return
AlreadyLoaded(ix) == ix.loaded

\* search.py line 20
CheckLoaded(w) ==
    /\ Quiet
    /\ workers[w].pc = "L20"
    /\ Step(w, [workers[w] EXCEPT !.calledIndex = TRUE,
                                  !.pc = IF AlreadyLoaded(INDEX) THEN "compute" ELSE "L22"])
    /\ UNCHANGED <<embFile, metaFile, actorsDir, INDEX, builder, ret, groups, built>>

\* line 22: the two exists() checks
CheckArtifacts(w) ==
    /\ Quiet
    /\ workers[w].pc = "L22"
    /\ Step(w, IF ArtifactsMissing(embFile, metaFile)
               THEN OnRaise(workers[w], "FileNotFoundError")
               ELSE [workers[w] EXCEPT !.pc = "L26"])
    /\ UNCHANGED <<embFile, metaFile, actorsDir, INDEX, builder, ret, groups, built>>

\* lines 26-29: np.load and the normalisation (np.load of a file that is gone
\* raises FileNotFoundError)
ReadEmb(w) ==
    /\ Quiet
    /\ workers[w].pc = "L26"
    /\ IF embFile = None
       THEN /\ Step(w, OnRaise(workers[w], "FileNotFoundError"))
            /\ UNCHANGED INDEX
       ELSE /\ INDEX' = LoadEmb(INDEX, embFile)
            /\ Step(w, [workers[w] EXCEPT !.pc = "L30", !.didRead = TRUE])
    /\ UNCHANGED <<embFile, metaFile, actorsDir, builder, ret, groups, built>>

\* lines 30-31: open and json.load
ReadMeta(w) ==
    /\ Quiet
    /\ workers[w].pc = "L30"
    /\ IF metaFile = None
       THEN /\ Step(w, OnRaise(workers[w], "FileNotFoundError"))
            /\ UNCHANGED INDEX
       ELSE /\ INDEX' = LoadMeta(INDEX, metaFile)
            /\ Step(w, [workers[w] EXCEPT !.pc = "L32"])
    /\ UNCHANGED <<embFile, metaFile, actorsDir, builder, ret, groups, built>>

\* lines 32-34: the row-count check, then self._loaded = True
Validate(w) ==
    /\ Quiet
    /\ workers[w].pc = "L32"
    /\ IF RowCountMismatch(INDEX)
       THEN /\ Step(w, OnRaise(workers[w], "ValueError"))
            /\ UNCHANGED INDEX
       ELSE /\ INDEX' = SetLoaded(INDEX)
            /\ Step(w, [workers[w] EXCEPT !.pc = "compute"])
    /\ UNCHANGED <<embFile, metaFile, actorsDir, builder, ret, groups, built>>

\* lines 38-44: the similarities, the sort and the returned list
Compute(w) ==
    /\ Quiet
    /\ workers[w].pc = "compute"
    /\ \E t \in TopkOf(Get(INDEX.emb), workers[w].q, workers[w].k) :
          Step(w, [workers[w] EXCEPT !.top = t,
                       !.pc = IF workers[w].kind = "direct" THEN "done" ELSE "map"])
    /\ UNCHANGED <<embFile, metaFile, actorsDir, INDEX, builder, ret, groups, built>>

\* main.py: the loop over top with INDEX.info(idx).  In match_actors it is
\* outside the try (an exception there is the framework's 500), in the batch
\* handler inside it.
MapResults(w) ==
    /\ Quiet
    /\ workers[w].pc = "map"
    /\ LET rec == workers[w]
       IN  Step(w, IF rec.kind = "single"
                   THEN IF InfoFails(INDEX, rec.top)
                        THEN Respond([rec EXCEPT !.exc = "IndexError"], 500, None)
                        ELSE Respond(rec, 200, Some(ResultsOf(INDEX, rec.top)))
                   ELSE IF InfoFails(INDEX, rec.top)
                        THEN OnRaise(rec, "IndexError")
                        ELSE BatchAppend(rec, ResultsItem(rec.files[rec.i],
                                                          ResultsOf(INDEX, rec.top)),
                                         "none"))
    /\ UNCHANGED <<embFile, metaFile, actorsDir, INDEX, builder, ret, groups, built>>

\* The response (or the returned list, or the exception) reaches the caller
Finish(w) ==
    /\ workers[w].pc = "done"
    /\ Step(w, IdleWorker)
    /\ UNCHANGED <<embFile, metaFile, actorsDir, INDEX, builder, ret, groups, built>>

-----------------------------------------------------------------------------
(* build_actor_index.py main() as a process beside the server, and the     *)
(* operator who removes the artifacts                                      *)

DatasetA == (2 :> <<GoodJpg(<<10, 0>>)>>)
DatasetB == (3 :> <<GoodJpg(<<0, 10>>), Corrupt>>)
DatasetC == (2 :> <<GoodJpg(<<6, 8>>)>>) @@ (3 :> <<Corrupt, GoodJpg(<<-6, 8>>)>>)
DatasetBroken == (2 :> <<Corrupt>>)

Datasets == {<<>>, DatasetA, DatasetB, DatasetC, DatasetBroken}

BuilderIdle == [pc |-> "idle", emb |-> <<>>, meta |-> <<>>]

\* main() up to np.save(DATA_DIR / "embeddings.npy", emb): an empty dataset
\* exits, an exception of compute_actor_vectors ends the run
BuilderSaveEmb ==
    /\ Quiet
    /\ builder.pc = "idle"
    /\ \E g \in Datasets, cpa \in ClusterChoices :
          IF g = <<>> THEN UNCHANGED <<builder, actorsDir, embFile>>
          ELSE \E o \in ComputeActorVectors(g, cpa, actorsDir) :
                  /\ actorsDir' = o.dir
                  /\ IF o.exc # "none" THEN UNCHANGED <<builder, embFile>>
                     ELSE /\ embFile' = Some(o.emb)
                          /\ builder' = [pc |-> "saved_emb", emb |-> o.emb, meta |-> o.meta]
    /\ UNCHANGED <<metaFile, INDEX, workers, ret, groups, built>>

\* json.dump(meta, f)
BuilderSaveMeta ==
    /\ Quiet
    /\ builder.pc = "saved_emb"
    /\ metaFile' = Some(builder.meta)
    /\ builder' = BuilderIdle
    /\ UNCHANGED <<embFile, actorsDir, INDEX, workers, ret, groups, built>>

\* embeddings.npy is removed
DeleteEmb ==
    /\ Quiet
    /\ embFile # None
    /\ embFile' = None
    /\ UNCHANGED <<metaFile, actorsDir, INDEX, workers, builder, ret, groups, built>>

\* metadata.json is removed
DeleteMeta ==
    /\ Quiet
    /\ metaFile # None
    /\ metaFile' = None
    /\ UNCHANGED <<embFile, actorsDir, INDEX, workers, builder, ret, groups, built>>

\* What a run of the builder on a dataset writes
Builds ==
    {o \in UNION {ComputeActorVectors(g, 1, {}) : g \in Datasets \ {<<>>}} : o.exc = "none"}

-----------------------------------------------------------------------------
(* The server: one request at a time holds the event loop (the handlers    *)
(* are coroutines and INDEX.topk has no await), on index files left in any *)
(* state by earlier builder runs and removals, which the operator may      *)
(* remove at any time                                                      *)

Init ==
    /\ embFile \in {None} \cup {Some(b.emb) : b \in Builds}
    /\ metaFile \in {None} \cup {Some(b.meta) : b \in Builds}
    /\ actorsDir = {}
    /\ INDEX = NewIndex
    /\ workers = <<IdleWorker>>
    /\ builder = BuilderIdle
    /\ ret = NoCall
    /\ groups = <<>>
    /\ built = NotBuilt

Next ==
    \/ \E w \in Workers :
          \/ MatchActorsStart(w)
          \/ MatchActorsRead(w)
          \/ BatchStart(w)
          \/ BatchRead(w)
          \/ CheckLoaded(w)
          \/ CheckArtifacts(w)
          \/ ReadEmb(w)
          \/ ReadMeta(w)
          \/ Validate(w)
          \/ Compute(w)
          \/ MapResults(w)
          \/ Finish(w)
    \/ DeleteEmb
    \/ DeleteMeta

Spec == Init /\ [][Next]_vars


-----------------------------------------------------------------------------
(* Properties of the server *)

IsImageType(u) ==
    /\ u.content_type # None
    /\ Len(Get(u.content_type)) >= Len(ImagePrefix)
    /\ SubSeq(Get(u.content_type), 1, Len(ImagePrefix)) = ImagePrefix

Oversized(u) == u.size > MaxUploadBytes

FilesMissing == embFile = None \/ metaFile = None

(* C2: when the existence check of ensure_loaded runs with an artifact     *)
(* missing, the call raises FileNotFoundError, returns no list and leaves  *)
(* the index unchanged and Unloaded; in match_actors the response is 503.  *)
C2_NotBuiltFails ==
    [][\A w \in Workers :
          (workers[w].pc = "L22" /\ workers'[w].pc # "L22" /\ FilesMissing) =>
              /\ workers'[w].exc = "FileNotFoundError"
              /\ workers'[w].pc \notin {"L26", "L30", "L32", "compute", "map"}
              /\ INDEX' = INDEX
              /\ ~INDEX'.loaded
              /\ workers[w].kind = "single" =>
                    /\ workers'[w].pc = "done"
                    /\ workers'[w].status = 503
                    /\ workers'[w].body = None]_vars

\* a valid upload answered 503 with only metadata.json missing
C2_Witness ==
    \E w \in Workers :
        /\ workers[w].kind = "single" /\ workers[w].pc = "done"
        /\ workers[w].status = 503
        /\ workers[w].calledEmbed
        /\ embFile # None /\ metaFile = None
        /\ ~INDEX.loaded

\* The status of a finished match_actors request, with the status of an
\* oversized upload left open
StatusContract(oversizedStatus) ==
    \A w \in Workers :
        LET r == workers[w]
            u == r.files[1]
        IN  (r.kind = "single" /\ r.pc = "done") =>
                IF ~IsImageType(u)
                THEN r.status = 400 /\ ~r.calledEmbed /\ ~r.calledIndex
                ELSE IF Oversized(u)
                THEN r.status = oversizedStatus /\ ~r.calledEmbed /\ ~r.calledIndex
                ELSE IF ~u.decodable
                THEN r.status = 400 /\ ~r.calledIndex
                ELSE /\ r.calledEmbed /\ r.calledIndex
                     /\ (~r.loaded0 /\ r.missing0) => r.status = 503
                     /\ IF r.exc = "FileNotFoundError" THEN r.status = 503
                        ELSE IF r.exc # "none" THEN r.status = 500
                        ELSE /\ r.status = 200
                             /\ r.body # None
                             /\ Len(Get(r.body)) = Len(r.top)

(* C4 as stated: 400 for a content type that is not an image, 400 for a    *)
(* payload over 10 MiB, 400 for bytes that cannot be embedded, 503 for an  *)
(* index that is not built, 500 for another failure of the query, 200      *)
(* otherwise; a rejected upload reaches neither the embedding nor the      *)
(* index.                                                                  *)
C4_AsStated == StatusContract(400)

(* C4 as amended: as stated, with 413 for a payload over 10 MiB (the       *)
(* checks are made in the order content type, size, embedding, query).     *)
C4_StatusByOutcome == StatusContract(413)

\* an image of 10 MiB + 1 byte is answered 413 before any embedding
C4_Witness ==
    \E w \in Workers :
        /\ workers[w].kind = "single" /\ workers[w].pc = "done"
        /\ workers[w].files = <<BigUpload>>
        /\ workers[w].status = 413
        /\ ~workers[w].calledEmbed

\* a file of a batch that reaches the index query
ReachesQuery(u) == IsImageType(u) /\ ~Oversized(u) /\ u.decodable

(* C5 as stated: a non-empty batch sent while the index artifacts are      *)
(* missing is answered 503 without an items list, whatever its files.      *)
C5_AsStated ==
    \A w \in Workers :
        LET r == workers[w]
        IN  (r.kind = "batch" /\ r.pc = "done" /\ r.files # <<>> /\ r.missing0) =>
                r.status = 503 /\ r.body = None

(* C5 as amended: a non-empty batch sent while the index is Unloaded and   *)
(* an artifact is missing, with at least one file that passes the content- *)
(* type, size and embedding checks, is answered 503 without an items list, *)
(* whatever the outcomes of its other files.                               *)
C5_MissingIndexAbortsBatch ==
    \A w \in Workers :
        LET r == workers[w]
        IN  (/\ r.kind = "batch" /\ r.pc = "done" /\ r.files # <<>>
             /\ r.missing0 /\ ~r.loaded0
             /\ \E i \in 1..Len(r.files) : ReachesQuery(r.files[i])) =>
                r.status = 503 /\ r.body = None

\* a batch of a text file, an oversized file and a valid image is aborted
C5_Witness ==
    \E w \in Workers :
        /\ workers[w].kind = "batch" /\ workers[w].pc = "done"
        /\ workers[w].files = <<TextUpload, BigUpload, GoodUpload>>
        /\ workers[w].missing0 /\ ~workers[w].loaded0
        /\ workers[w].status = 503

(* C6: a non-empty batch of n files handled while the index is available   *)
(* (loaded when the request arrives, or both artifacts on disk until it is *)
(* answered) is answered 200 with n items in the                           *)
(* order of the files; item i has the filename of file i and exactly one   *)
(* of results and error: error when file i is not an image, is over 10 MiB *)
(* or fails processing (its embedding, or its index query), results        *)
(* otherwise, whatever happened to the other files.                        *)
C6_BatchItems ==
    \A w \in Workers :
        LET r == workers[w]
        IN  (/\ r.kind = "batch" /\ r.pc = "done" /\ r.files # <<>>
             /\ (r.loaded0 \/ ~FilesMissing)) =>
                /\ r.status = 200
                /\ r.body # None
                /\ Len(Get(r.body)) = Len(r.files)
                /\ Len(r.raised) = Len(r.files)
                /\ \A i \in 1..Len(r.files) :
                      LET item == Get(r.body)[i]
                          f == r.files[i]
                      IN  /\ item.filename = f.filename
                          /\ (item.results = None) # (item.error = None)
                          /\ (item.error # None) <=>
                                 \/ ~IsImageType(f)
                                 \/ Oversized(f)
                                 \/ ~f.decodable
                                 \/ r.raised[i] # "none"

\* three files, the second one corrupt, the others served
C6_Witness ==
    \E w \in Workers :
        /\ workers[w].kind = "batch" /\ workers[w].pc = "done"
        /\ workers[w].files = <<GoodUpload, BrokenUpload, GoodUpload>>
        /\ workers[w].status = 200
        /\ Get(workers[w].body)[1].results # None
        /\ Get(workers[w].body)[1].results # Some(<<>>)
        /\ Get(workers[w].body)[2].error # None
        /\ Get(workers[w].body)[3].results # None

-----------------------------------------------------------------------------
(* The index beside the builder: callers of INDEX.topk, the builder        *)
(* process and the operator.  SpecIndex has one caller at a time, as on    *)
(* the event loop; SpecThreads has callers that run as preemptive threads. *)

InitCallers(n) ==
    /\ embFile = None
    /\ metaFile = None
    /\ actorsDir = {}
    /\ INDEX = NewIndex
    /\ workers = [w \in 1..n |-> IdleWorker]
    /\ builder = BuilderIdle
    /\ ret = NoCall
    /\ groups = <<>>
    /\ built = NotBuilt

NextIndex ==
    \/ \E w \in Workers :
          \/ DirectCall(w)
          \/ CheckLoaded(w)
          \/ CheckArtifacts(w)
          \/ ReadEmb(w)
          \/ ReadMeta(w)
          \/ Validate(w)
          \/ Compute(w)
          \/ Finish(w)
    \/ BuilderSaveEmb
    \/ BuilderSaveMeta
    \/ DeleteEmb
    \/ DeleteMeta

InitIndex == InitCallers(1)

SpecIndex == InitIndex /\ [][NextIndex]_vars

InitThreads == InitCallers(NumThreads)

SpecThreads == InitThreads /\ [][NextIndex]_vars

-----------------------------------------------------------------------------
(* Properties of the index beside the builder *)

(* C7: among concurrent callers of INDEX.topk, at most one reads the       *)
(* artifacts: no two calls in flight have both read embeddings.npy.        *)
C7_LoadOnce ==
    Cardinality({w \in Workers : workers[w].didRead}) <= 1

(* C9: once the index is Loaded it stays Loaded, its cached matrix and     *)
(* metadata never change, and no call is inside the part of ensure_loaded  *)
(* that reads the artifacts, whatever happens to the files.                *)
C9_LoadedForGood ==
    [][INDEX.loaded =>
          /\ INDEX' = INDEX
          /\ \A w \in Workers : workers'[w].pc \notin LoadPcs
          /\ \A w \in Workers : workers'[w].didRead => workers[w].didRead]_vars

\* a call served from the cache after both artifacts were removed
C9_Witness ==
    \E w \in Workers :
        /\ INDEX.loaded
        /\ embFile = None /\ metaFile = None
        /\ workers[w].pc = "done" /\ workers[w].exc = "none"
        /\ ~workers[w].didRead
        /\ workers[w].missing0
        /\ Len(workers[w].top) >= 1

(* C10: a Loaded index holds the matrix and the metadata of one build.     *)
C10_SameBuild ==
    INDEX.loaded =>
        \E b \in Builds :
            /\ Get(INDEX.emb) = NormalizeRows(b.emb)
            /\ Get(INDEX.meta) = b.meta

\* the builder only ever writes one of Builds
BuilderWritesBuilds ==
    builder.pc = "saved_emb" =>
        \E b \in Builds : builder.emb = b.emb /\ builder.meta = b.meta

====
